---------------------------- MODULE Spec2Model ----------------------------
(***************************************************************************)
(* CNOTDihedral (qiskit/quantum_info/operators/dihedral/dihedral.py).      *)
(*                                                                         *)
(* An N-qubit element is an affine function over GF(2) (linear, shift)     *)
(* and a phase polynomial over Z/8 of degree <= 3.  The Python object      *)
(* holds references to three mutable objects (self.linear, self.shift,     *)
(* self.poly); the model keeps them in a heap (cells) so that sharing      *)
(* between elements is visible.                                            *)
(***************************************************************************)
EXTENDS Integers, FiniteSets, Sequences, TLC

VARIABLES
    objs,    \* variable name -> CNOTDihedral object (references into cells) or None
    cells,   \* reference -> numpy array / list / SpecialPolynomial object, or free
    call,    \* the last call made: its name, the variable it was made on, whether it raised
    hist,    \* history of the last call where a specification keeps it: arguments, value before
    ncalls   \* number of calls counted against the depth bounds

vars == <<objs, cells, call, hist, ncalls>>

(***************************************************************************)
(* Bounds of the model.                                                    *)
(***************************************************************************)
MaxCalls == 3          \* calls explored in Spec
MaxDepth3 == 3         \* calls explored on the 3-qubit element in SpecMutators
MaxDepth == 3          \* calls explored in SpecGenerators
MaxGates == 3          \* gates in a circuit segment that builds an operand of 2 or 3 qubits
MaxQubits == 4         \* qubits of a tensor product in Spec
MaxWide == 5           \* qubits of the widest operands in SpecWide (from 4)
MaxWideGates == 5      \* gates in a circuit segment that builds an operand in SpecWide

(***************************************************************************)
(* Small helpers.                                                          *)
(***************************************************************************)
Idx(n) == 0 .. (n - 1)

Max(S) == CHOOSE x \in S : \A y \in S : y <= x

RECURSIVE SumF(_, _)
SumF(f, S) ==
    IF S = {} THEN 0
    ELSE LET x == CHOOSE y \in S : TRUE IN f[x] + SumF(f, S \ {x})

(***************************************************************************)
(* SpecialPolynomial (polynomial.py): weight_0 is the constant, weight_k   *)
(* maps each k-subset of the variables to a coefficient in Z/8.            *)
(***************************************************************************)
Subsets(n, k) == {S \in SUBSET Idx(n) : Cardinality(S) = k}

Terms(n) == {S \in SUBSET Idx(n) : Cardinality(S) <= 3}

\* SpecialPolynomial(n_vars): the zero polynomial
SpecialPolynomial(n) ==
    [n_vars |-> n,
     weight_0 |-> 0,
     weight_1 |-> [S \in Subsets(n, 1) |-> 0],
     weight_2 |-> [S \in Subsets(n, 2) |-> 0],
     weight_3 |-> [S \in Subsets(n, 3) |-> 0]]

\* get_term(indices): the coefficient of the monomial; 0 above degree 3
get_term(p, S) ==
    CASE Cardinality(S) = 0 -> p.weight_0
      [] Cardinality(S) = 1 -> p.weight_1[S]
      [] Cardinality(S) = 2 -> p.weight_2[S]
      [] Cardinality(S) = 3 -> p.weight_3[S]
      [] OTHER -> 0

\* set_term(indices, value): stores value mod 8; ignored above degree 3
set_term(p, S, value) ==
    CASE Cardinality(S) = 0 -> [p EXCEPT !.weight_0 = value % 8]
      [] Cardinality(S) = 1 -> [p EXCEPT !.weight_1[S] = value % 8]
      [] Cardinality(S) = 2 -> [p EXCEPT !.weight_2[S] = value % 8]
      [] Cardinality(S) = 3 -> [p EXCEPT !.weight_3[S] = value % 8]
      [] OTHER -> p

\* the polynomial on n variables with coefficient f[S] mod 8 at every term S
MkPoly(n, f) ==
    [n_vars |-> n,
     weight_0 |-> f[{}] % 8,
     weight_1 |-> [S \in Subsets(n, 1) |-> f[S] % 8],
     weight_2 |-> [S \in Subsets(n, 2) |-> f[S] % 8],
     weight_3 |-> [S \in Subsets(n, 3) |-> f[S] % 8]]

\* p + q: term by term mod 8
PolyAdd(p, q) ==
    MkPoly(p.n_vars, [S \in Terms(p.n_vars) |-> get_term(p, S) + get_term(q, S)])

\* c * p for an integer c: every term times c, mod 8
PolyScale(c, p) ==
    MkPoly(p.n_vars, [S \in Terms(p.n_vars) |-> c * get_term(p, S)])

\* p * q: monomials multiply by union of their variables (x_i * x_i = x_i);
\* monomials above degree 3 are dropped.  The coefficient of x^S sums
\* p[A] * q[B] over the pairs with A \cup B = S, i.e. B = (S \ A) \cup C, C within A.
PolyMul(p, q) ==
    MkPoly(p.n_vars,
           [S \in Terms(p.n_vars) |->
               LET As == {A \in SUBSET S : get_term(p, A) # 0}
               IN  SumF([A \in As |->
                            get_term(p, A)
                            * SumF([C \in SUBSET A |-> get_term(q, (S \ A) \cup C)],
                                   SUBSET A)],
                        As)])

\* set_pj(indices): p_J = sum over non-empty a within J of (-2)^(|a|-1) x^a, to degree 3
set_pj(n, support) ==
    MkPoly(n, [S \in Terms(n) |->
                  IF ~(S \subseteq support) THEN 0
                  ELSE CASE Cardinality(S) = 1 -> 1
                         [] Cardinality(S) = 2 -> 6
                         [] Cardinality(S) = 3 -> 4
                         [] OTHER -> 0])

\* the product start * xval[j1] * xval[j2] * ... over the variables of a term
RECURSIVE TermProduct(_, _, _)
TermProduct(n, xval, T) ==
    IF T = {} THEN set_term(SpecialPolynomial(n), {}, 1)
    ELSE LET j == Max(T) IN PolyMul(TermProduct(n, xval, T \ {j}), xval[j])

RECURSIVE EvalSum(_, _, _)
EvalSum(p, xval, Ts) ==
    IF Ts = {} THEN SpecialPolynomial(p.n_vars)
    ELSE LET T == CHOOSE U \in Ts : TRUE
         IN  PolyAdd(EvalSum(p, xval, Ts \ {T}),
                     PolyScale(get_term(p, T), TermProduct(p.n_vars, xval, T)))

\* evaluate(xval): substitute polynomial xval[j] for variable j in every non-zero term
evaluate(p, xval) ==
    EvalSum(p, xval, {T \in Terms(p.n_vars) : get_term(p, T) # 0})

(***************************************************************************)
(* The substitution of evaluate written out without dropping anything: a   *)
(* polynomial in n variables with one integer coefficient for EVERY        *)
(* monomial (set of variables), multiplied with x_i * x_i = x_i.           *)
(***************************************************************************)
Monomials(n) == SUBSET Idx(n)

\* a SpecialPolynomial as such a polynomial (no content above degree 3)
Lift(p) == [S \in Monomials(p.n_vars) |-> get_term(p, S)]

\* f * g over all monomials; the coefficient of x^S sums f[A] * g[B] over the
\* pairs with A \cup B = S
ExpansionMul(n, f, g) ==
    [S \in Monomials(n) |->
        LET As == {A \in SUBSET S : f[A] # 0}
        IN  SumF([A \in As |->
                     f[A] * SumF([C \in SUBSET A |-> g[(S \ A) \cup C]], SUBSET A)],
                 As)]

\* the product of the substituted polynomials xval[j] over the variables of a term
RECURSIVE ExpansionProduct(_, _, _)
ExpansionProduct(n, xval, T) ==
    IF T = {} THEN [S \in Monomials(n) |-> IF S = {} THEN 1 ELSE 0]
    ELSE LET j == Max(T)
         IN  ExpansionMul(n, ExpansionProduct(n, xval, T \ {j}), Lift(xval[j]))

\* p with polynomial xval[j] substituted for variable j, fully expanded
Expansion(p, xval) ==
    LET n == p.n_vars
        Ts == {T \in Terms(n) : get_term(p, T) # 0}
        prod == [T \in Ts |-> ExpansionProduct(n, xval, T)]
    IN  [S \in Monomials(n) |-> SumF([T \in Ts |-> get_term(p, T) * prod[T][S]], Ts)]

(***************************************************************************)
(* Values of a CNOTDihedral element.  An element value is a record         *)
(*   [num_qubits, linear, shift, shift_type, poly]                         *)
(* linear[i][j] is the N x N matrix, shift[i] the vector, shift_type the   *)
(* Python type holding the shift ("ndarray" or "list").                    *)
(***************************************************************************)
\* np.eye(n)
eye(n) == [i \in Idx(n) |-> [j \in Idx(n) |-> IF i = j THEN 1 ELSE 0]]

\* np.zeros(n)
zeros(n) == [i \in Idx(n) |-> 0]

\* CNOTDihedral(num_qubits=n): the n-qubit identity
Identity(n) ==
    [num_qubits |-> n,
     linear |-> eye(n),
     shift |-> zeros(n),
     shift_type |-> "ndarray",
     poly |-> SpecialPolynomial(n)]

\* np.mod(np.dot(left, right), 2) for two n x n matrices
_z2matmul(left, right) ==
    LET I == DOMAIN left
    IN  [i \in I |-> [j \in I |->
            SumF([k \in I |-> left[i][k] * right[k][j]], I) % 2]]

\* np.mod(np.dot(mat, vec), 2)
_z2matvecmul(mat, vec) ==
    LET I == DOMAIN mat
    IN  [i \in I |-> SumF([k \in I |-> mat[i][k] * vec[k]], I) % 2]

\* the support of a row: np.arange(n)[np.nonzero(row)]
Support(row) == {j \in DOMAIN row : row[j] # 0}

\* mutant of NewVars: the negated polynomial is not incremented
NewVars_no_increment(n, linear, shift) ==
    [i \in Idx(n) |->
        LET pj == set_pj(n, Support(linear[i]))
        IN  IF shift[i] = 1 THEN PolyScale(-1, pj) ELSE pj]

\* mutant of NewVars: the monomial of the support (the conjunction of the row's
\* variables) in place of its parity polynomial
NewVars_monomial(n, linear, shift) ==
    [i \in Idx(n) |->
        LET pj == set_term(SpecialPolynomial(n), Support(linear[i]), 1)
            neg == PolyScale(-1, pj)
        IN  IF shift[i] = 1
            THEN [neg EXCEPT !.weight_0 = (neg.weight_0 + 1) % 8]
            ELSE pj]

\* new_vars of _dot/_compose: the parity polynomial of every row of the affine
\* function (linear, shift), negated and incremented where the shift bit is set
NewVars(n, linear, shift) ==
    [i \in Idx(n) |->
        LET pj == set_pj(n, Support(linear[i]))
            neg == PolyScale(-1, pj)
        IN  IF shift[i] = 1
            THEN [neg EXCEPT !.weight_0 = (neg.weight_0 + 1) % 8]
            ELSE pj]

\* mutant of _dot: the shift is computed with the operands swapped
_dot_swapped_shift(self, other) ==
    [num_qubits |-> self.num_qubits,
     shift |-> [i \in Idx(self.num_qubits) |->
                  (_z2matvecmul(other.linear, self.shift)[i] + other.shift[i]) % 2],
     shift_type |-> "list",
     linear |-> _z2matmul(self.linear, other.linear),
     poly |-> PolyAdd(other.poly,
                      evaluate(self.poly,
                               NewVars(self.num_qubits, other.linear, other.shift)))]

\* self._dot(other): left multiplication self * other
_dot(self, other) ==
    [num_qubits |-> self.num_qubits,
     shift |-> [i \in Idx(self.num_qubits) |->
                  (_z2matvecmul(self.linear, other.shift)[i] + self.shift[i]) % 2],
     shift_type |-> "list",
     linear |-> _z2matmul(self.linear, other.linear),
     poly |-> PolyAdd(other.poly,
                      evaluate(self.poly,
                               NewVars(self.num_qubits, other.linear, other.shift)))]

\* mutant of _compose: the shift of other is not added
_compose_drop_shift(self, other) ==
    [num_qubits |-> self.num_qubits,
     shift |-> [i \in Idx(self.num_qubits) |->
                  _z2matvecmul(other.linear, self.shift)[i] % 2],
     shift_type |-> "list",
     linear |-> _z2matmul(other.linear, self.linear),
     poly |-> PolyAdd(self.poly,
                      evaluate(other.poly,
                               NewVars(self.num_qubits, self.linear, self.shift)))]

\* self._compose(other): right multiplication other * self
_compose(self, other) ==
    [num_qubits |-> self.num_qubits,
     shift |-> [i \in Idx(self.num_qubits) |->
                  (_z2matvecmul(other.linear, self.shift)[i] + other.shift[i]) % 2],
     shift_type |-> "list",
     linear |-> _z2matmul(other.linear, self.linear),
     poly |-> PolyAdd(self.poly,
                      evaluate(other.poly,
                               NewVars(self.num_qubits, self.linear, self.shift)))]

\* compose raises QiskitError when the qubit counts differ
compose_raises(self, other) == self.num_qubits # other.num_qubits

\* self.compose(other, front=front): the product, with the global phase set to 0
compose(self, other, front) ==
    LET r == IF front THEN _dot(self, other) ELSE _compose(self, other)
    IN  [r EXCEPT !.poly.weight_0 = 0]

(***************************************************************************)
(* The three mutators.  Each raises QiskitError before touching the        *)
(* element when a qubit index is out of range.                             *)
(***************************************************************************)
InRange(i, n) == 0 <= i /\ i < n

\* mutant of _append_cx_raises: the lower bound tested as 0 < i
_append_cx_raises_off_by_one(self, i, j) ==
    ~(0 < i /\ i < self.num_qubits) \/ ~InRange(j, self.num_qubits)

\* _append_cx(i, j) raises
_append_cx_raises(self, i, j) ==
    ~InRange(i, self.num_qubits) \/ ~InRange(j, self.num_qubits)

\* _append_cx(i, j): row j += row i, shift[j] += shift[i] (mod 2)
_append_cx(self, i, j) ==
    LET linear == [self.linear EXCEPT
                      ![j] = [c \in Idx(self.num_qubits) |->
                                 (self.linear[i][c] + self.linear[j][c]) % 2]]
        shift == [self.shift EXCEPT ![j] = (self.shift[i] + self.shift[j]) % 2]
    IN  [self EXCEPT !.linear = linear, !.shift = shift]

\* _append_phase(k, i) raises
_append_phase_raises(self, k, i) == ~InRange(i, self.num_qubits)

\* mutant of _append_phase: k is not conjugated when shift[i] is set
_append_phase_no_conjugate(self, k, i) ==
    LET support == Support(self.linear[i])
        poly == MkPoly(self.num_qubits,
                       [S \in Terms(self.num_qubits) |->
                           IF S = {} \/ ~(S \subseteq support)
                           THEN get_term(self.poly, S)
                           ELSE CASE Cardinality(S) = 1 -> get_term(self.poly, S) + k
                                  [] Cardinality(S) = 2 -> get_term(self.poly, S) + (-2) * k
                                  [] OTHER -> get_term(self.poly, S) + 4 * k])
    IN  [self EXCEPT !.poly = poly]

\* mutant of _append_phase: the 2-subsets receive -k instead of -2k
_append_phase_wrong_weight(self, k, i) ==
    LET k1 == IF self.shift[i] = 1 THEN (7 * k) % 8 ELSE k
        support == Support(self.linear[i])
        poly == MkPoly(self.num_qubits,
                       [S \in Terms(self.num_qubits) |->
                           IF S = {} \/ ~(S \subseteq support)
                           THEN get_term(self.poly, S)
                           ELSE CASE Cardinality(S) = 1 -> get_term(self.poly, S) + k1
                                  [] Cardinality(S) = 2 -> get_term(self.poly, S) + (-1) * k1
                                  [] OTHER -> get_term(self.poly, S) + 4 * k1])
    IN  [self EXCEPT !.poly = poly]

\* _append_phase(k, i): add k*(-2)^(|a|-1) to every subset a (up to weight 3)
\* of the support of row i, with k conjugated to 7k when shift[i] is set
_append_phase(self, k, i) ==
    LET k1 == IF self.shift[i] = 1 THEN (7 * k) % 8 ELSE k
        support == Support(self.linear[i])
        poly == MkPoly(self.num_qubits,
                       [S \in Terms(self.num_qubits) |->
                           IF S = {} \/ ~(S \subseteq support)
                           THEN get_term(self.poly, S)
                           ELSE CASE Cardinality(S) = 1 -> get_term(self.poly, S) + k1
                                  [] Cardinality(S) = 2 -> get_term(self.poly, S) + (-2) * k1
                                  [] OTHER -> get_term(self.poly, S) + 4 * k1])
    IN  [self EXCEPT !.poly = poly]

\* _append_x(i) raises
_append_x_raises(self, i) == ~InRange(i, self.num_qubits)

\* _append_x(i): shift[i] += 1 (mod 2)
_append_x(self, i) ==
    [self EXCEPT !.shift[i] = (self.shift[i] + 1) % 2]

(***************************************************************************)
(* Tensor product.                                                         *)
(***************************************************************************)
\* the loops of _tensor: every term of poly (linear, quadratic, cubic) is read
\* with get_term and stored in result at the indices moved up by offset
RECURSIVE CopyTerms(_, _, _, _)
CopyTerms(result, poly, Ts, offset) ==
    IF Ts = {} THEN result
    ELSE LET S == CHOOSE U \in Ts : TRUE
         IN  CopyTerms(set_term(result, {m + offset : m \in S}, get_term(poly, S)),
                       poly, Ts \ {S}, offset)

\* np.block([[m0, 0], [0, m1]])
BlockDiag(m0, n0, m1, n1) ==
    [i \in Idx(n0 + n1) |-> [j \in Idx(n0 + n1) |->
        IF i < n0 /\ j < n0 THEN m0[i][j]
        ELSE IF i >= n0 /\ j >= n0 THEN m1[i - n0][j - n0]
        ELSE 0]]

\* _tensor(other, reverse): elem0 on the low qubits, elem1 on the high ones
_tensor(self, other, reverse) ==
    LET elem0 == IF reverse THEN self ELSE other
        elem1 == IF reverse THEN other ELSE self
        n0 == elem0.num_qubits
        n1 == elem1.num_qubits
        poly0 == CopyTerms(SpecialPolynomial(n0 + n1), elem0.poly,
                           Terms(n0) \ {{}}, 0)
    IN  [num_qubits |-> n0 + n1,
         linear |-> BlockDiag(elem0.linear, n0, elem1.linear, n1),
         shift |-> [i \in Idx(n0 + n1) |->
                       IF i < n0 THEN elem0.shift[i] ELSE elem1.shift[i - n0]],
         shift_type |-> "ndarray",
         poly |-> CopyTerms(poly0, elem1.poly, Terms(n1) \ {{}}, n0)]

\* mutant of tensor: the operands placed in the order of expand
tensor_reversed(self, other) == _tensor(self, other, FALSE)

\* self.tensor(other)
tensor(self, other) == _tensor(self, other, TRUE)

\* self.expand(other)
expand(self, other) == _tensor(self, other, FALSE)

(***************************************************************************)
(* Validity.                                                               *)
(***************************************************************************)
\* the determinant of the rows r.. of m restricted to the columns cols
RECURSIVE DetMinor(_, _, _)
DetMinor(m, r, cols) ==
    IF cols = {} THEN 1
    ELSE SumF([c \in cols |->
                  (IF Cardinality({d \in cols : d < c}) % 2 = 0 THEN 1 ELSE -1)
                  * m[r][c] * DetMinor(m, r + 1, cols \ {c})], cols)

\* np.linalg.det(linear)
det(linear) == DetMinor(linear, 0, DOMAIN linear)

\* _is_valid(): "True" or "False", or the exception it ends with
_is_valid(self) ==
    LET n == self.num_qubits
        weight_1 == {self.poly.weight_1[S] : S \in DOMAIN self.poly.weight_1}
        weight_2 == {self.poly.weight_2[S] : S \in DOMAIN self.poly.weight_2}
        weight_3 == {self.poly.weight_3[S] : S \in DOMAIN self.poly.weight_3}
    IN  IF \/ self.poly.weight_0 # 0
           \/ Cardinality(DOMAIN self.poly.weight_1) # n
           \/ Cardinality(DOMAIN self.poly.weight_2) # (n * (n - 1)) \div 2
           \/ Cardinality(DOMAIN self.poly.weight_3) # (n * (n - 1) * (n - 2)) \div 6
        THEN "False"
        ELSE IF \/ DOMAIN self.linear # Idx(n)
                \/ \E i \in DOMAIN self.linear : DOMAIN self.linear[i] # Idx(n)
                \/ Cardinality(DOMAIN self.shift) # n
                \/ det(self.linear) % 2 # 1
        THEN "False"
        ELSE IF \/ ~(weight_1 \subseteq {0, 1, 2, 3, 4, 5, 6, 7})
                \/ ~(weight_2 \subseteq {0, 2, 4, 6})
                \/ ~(weight_3 \subseteq {0, 4})
        THEN "False"
        ELSE IF self.shift_type = "list"
        THEN "AttributeError"        \* a list has no flatten()
        ELSE IF \/ ~({self.shift[i] : i \in DOMAIN self.shift} \subseteq {0, 1})
                \/ ~({self.linear[i][j] : i, j \in Idx(n)} \subseteq {0, 1})
        THEN "False"
        ELSE "True"

(***************************************************************************)
(* The heap.  A CNOTDihedral object holds three references; cells maps a   *)
(* reference to the object it denotes.  objs binds program variables to    *)
(* CNOTDihedral objects.                                                   *)
(***************************************************************************)
\* the value of object o in heap mem
Load(o, mem) ==
    [num_qubits |-> o.num_qubits,
     linear |-> mem[o.linear].v,
     shift |-> mem[o.shift].v,
     shift_type |-> mem[o.shift].type,
     poly |-> mem[o.poly].v]

\* the value bound to variable x in the current state
Val(x) == Load(objs[x], cells)

\* the three fresh objects holding element value e
NewCells(e) ==
    << [type |-> "ndarray", v |-> e.linear],
       [type |-> e.shift_type, v |-> e.shift],
       [type |-> "SpecialPolynomial", v |-> e.poly] >>

\* a new CNOTDihedral object whose fields are the three cells allocated next
NewObject(e, mem) ==
    [num_qubits |-> e.num_qubits,
     linear |-> Len(mem) + 1,
     shift |-> Len(mem) + 2,
     poly |-> Len(mem) + 3]

\* an in-place update of the arrays and polynomial of object o to the value e
WriteThrough(o, e, mem) ==
    [mem EXCEPT ![o.linear].v = e.linear,
                ![o.shift].v = e.shift,
                ![o.poly].v = e.poly]

\* CNOTDihedral(data) for a CNOTDihedral data: the new object shares the
\* underlying linear, shift and poly of data
InitFrom(data) ==
    [num_qubits |-> data.num_qubits,
     linear |-> data.linear,
     shift |-> data.shift,
     poly |-> data.poly]

Bind(x, o) == [y \in DOMAIN objs \cup {x} |-> IF y = x THEN o ELSE objs[y]]

(***************************************************************************)
(* Calls.  call records the last call: its name, the variable it was made  *)
(* on and whether it raised.                                               *)
(***************************************************************************)
\* x = CNOTDihedral(num_qubits=n)
NewIdentity(x, n) ==
    /\ x \notin DOMAIN objs
    /\ objs' = Bind(x, NewObject(Identity(n), cells))
    /\ cells' = cells \o NewCells(Identity(n))
    /\ call' = [op |-> "__init__", self |-> x, raised |-> FALSE]

\* x = CNOTDihedral(y, validate=validate): the constructor raises, and x stays
\* unbound, when validation is asked for and _is_valid() does not return True
Construct(x, y, validate) ==
    /\ x \notin DOMAIN objs
    /\ y \in DOMAIN objs
    /\ LET raised == validate /\ _is_valid(Load(InitFrom(objs[y]), cells)) # "True"
       IN  /\ objs' = IF raised THEN objs ELSE Bind(x, InitFrom(objs[y]))
           /\ call' = [op |-> "__init__", self |-> x, raised |-> raised]
    /\ cells' = cells

\* x._append_cx(i, j)
ApplyCx(x, i, j) ==
    /\ x \in DOMAIN objs
    /\ LET raised == _append_cx_raises(Val(x), i, j)
       IN  /\ cells' = IF raised THEN cells
                       ELSE WriteThrough(objs[x], _append_cx(Val(x), i, j), cells)
           /\ call' = [op |-> "_append_cx", self |-> x, raised |-> raised]
    /\ objs' = objs

\* x._append_phase(k, i)
ApplyPhase(x, k, i) ==
    /\ x \in DOMAIN objs
    /\ LET raised == _append_phase_raises(Val(x), k, i)
       IN  /\ cells' = IF raised THEN cells
                       ELSE WriteThrough(objs[x], _append_phase(Val(x), k, i), cells)
           /\ call' = [op |-> "_append_phase", self |-> x, raised |-> raised]
    /\ objs' = objs

\* x._append_x(i)
ApplyX(x, i) ==
    /\ x \in DOMAIN objs
    /\ LET raised == _append_x_raises(Val(x), i)
       IN  /\ cells' = IF raised THEN cells
                       ELSE WriteThrough(objs[x], _append_x(Val(x), i), cells)
           /\ call' = [op |-> "_append_x", self |-> x, raised |-> raised]
    /\ objs' = objs

\* x = y.compose(z, front=front)
Compose(x, y, z, front) ==
    /\ x \notin DOMAIN objs
    /\ y \in DOMAIN objs /\ z \in DOMAIN objs
    /\ LET raised == compose_raises(Val(y), Val(z))
           r == compose(Val(y), Val(z), front)
       IN  /\ objs' = IF raised THEN objs ELSE Bind(x, NewObject(r, cells))
           /\ cells' = IF raised THEN cells ELSE cells \o NewCells(r)
           /\ call' = [op |-> "compose", self |-> y, raised |-> raised]

\* x = y.tensor(z)
Tensor(x, y, z) ==
    /\ x \notin DOMAIN objs
    /\ y \in DOMAIN objs /\ z \in DOMAIN objs
    /\ LET r == tensor(Val(y), Val(z))
       IN  /\ objs' = Bind(x, NewObject(r, cells))
           /\ cells' = cells \o NewCells(r)
    /\ call' = [op |-> "tensor", self |-> y, raised |-> FALSE]

\* x = y.expand(z)
Expand(x, y, z) ==
    /\ x \notin DOMAIN objs
    /\ y \in DOMAIN objs /\ z \in DOMAIN objs
    /\ LET r == expand(Val(y), Val(z))
       IN  /\ objs' = Bind(x, NewObject(r, cells))
           /\ cells' = cells \o NewCells(r)
    /\ call' = [op |-> "expand", self |-> y, raised |-> FALSE]

NoCall == [op |-> "none", self |-> "", raised |-> FALSE]

NoHist == [args |-> <<>>]

Powers == 0 .. 7

\* the single element E of SpecMutators and SpecGenerators
E == Val("E")

InitIdentity ==
    /\ \E n \in 1 .. 3 :
          /\ objs = [x \in {"E"} |-> NewObject(Identity(n), <<>>)]
          /\ cells = NewCells(Identity(n))
    /\ call = NoCall
    /\ hist = NoHist
    /\ ncalls = 0

(***************************************************************************)
(* SpecMutators: one element E, the N-qubit identity, under every sequence *)
(* of mutator calls with in-range qubits.  The 1- and 2-qubit elements are *)
(* explored exhaustively, the 3-qubit element to MaxDepth3 calls.          *)
(***************************************************************************)
Budget == E.num_qubits < 3 \/ ncalls < MaxDepth3

Spend ==
    /\ ncalls' = IF E.num_qubits < 3 THEN ncalls ELSE ncalls + 1
    /\ hist' = hist

MutCx ==
    /\ Budget /\ Spend
    /\ \E i, j \in Idx(E.num_qubits) : ApplyCx("E", i, j)

MutPhase ==
    /\ Budget /\ Spend
    /\ \E k \in Powers, i \in Idx(E.num_qubits) : ApplyPhase("E", k, i)

MutX ==
    /\ Budget /\ Spend
    /\ \E i \in Idx(E.num_qubits) : ApplyX("E", i)

NextMutators == MutCx \/ MutPhase \/ MutX

SpecMutators == InitIdentity /\ [][NextMutators]_vars

(***************************************************************************)
(* SpecGenerators: one element E from the identity under at most MaxDepth  *)
(* mutator calls, with qubit arguments in and out of range; hist keeps the *)
(* arguments of the last call and the value of E before it.                *)
(***************************************************************************)
ArgIdx(n) == -1 .. n

GenCx ==
    /\ ncalls < MaxDepth
    /\ ncalls' = ncalls + 1
    /\ \E i, j \in ArgIdx(E.num_qubits) :
          /\ ApplyCx("E", i, j)
          /\ hist' = [args |-> <<i, j>>, before |-> E]

GenPhase ==
    /\ ncalls < MaxDepth
    /\ ncalls' = ncalls + 1
    /\ \E k \in Powers, i \in ArgIdx(E.num_qubits) :
          /\ ApplyPhase("E", k, i)
          /\ hist' = [args |-> <<k, i>>, before |-> E]

GenX ==
    /\ ncalls < MaxDepth
    /\ ncalls' = ncalls + 1
    /\ \E i \in ArgIdx(E.num_qubits) :
          /\ ApplyX("E", i)
          /\ hist' = [args |-> <<i>>, before |-> E]

NextGenerators == GenCx \/ GenPhase \/ GenX

SpecGenerators == InitIdentity /\ [][NextGenerators]_vars

(***************************************************************************)
(* Operands: the valid elements that the specifications of compose and     *)
(* tensor draw their inputs from.  All sixteen 1-qubit elements; for 2 and *)
(* 3 qubits the elements of the segments (at most MaxGates consecutive     *)
(* gates) of a fixed circuit, replayed on the identity.                    *)
(***************************************************************************)
\* one gate applied to an element through its mutator
ApplyGate(e, g) ==
    CASE g[1] = "cx" -> _append_cx(e, g[2], g[3])
      [] g[1] = "phase" -> _append_phase(e, g[2], g[3])
      [] g[1] = "x" -> _append_x(e, g[2])

\* _from_circuit: the gates of a circuit applied in order to an element
RECURSIVE Replay(_, _)
Replay(e, circ) ==
    IF circ = <<>> THEN e ELSE Replay(ApplyGate(e, Head(circ)), Tail(circ))

Circuit(n) ==
    IF n = 2
    THEN << <<"cx", 0, 1>>, <<"phase", 3, 1>>, <<"x", 1>>, <<"cx", 1, 0>>,
            <<"phase", 6, 0>> >>
    ELSE << <<"cx", 0, 2>>, <<"cx", 1, 2>>, <<"phase", 3, 2>>, <<"x", 2>>,
            <<"cx", 2, 0>> >>

Segments(circ) ==
    {SubSeq(circ, i, j) : i \in 1 .. Len(circ), j \in 0 .. Len(circ)}

AllOneQubit ==
    {[num_qubits |-> 1,
      linear |-> [i \in Idx(1) |-> [j \in Idx(1) |-> l]],
      shift |-> [i \in Idx(1) |-> s],
      shift_type |-> "ndarray",
      poly |-> [SpecialPolynomial(1) EXCEPT !.weight_1[{0}] = k]] :
        l \in {0, 1}, s \in {0, 1}, k \in 0 .. 7}

Candidates(n) ==
    IF n = 1 THEN AllOneQubit
    ELSE {Replay(Identity(n), w) :
             w \in {v \in Segments(Circuit(n)) : Len(v) <= MaxGates}}

Operands(n) == {e \in Candidates(n) : _is_valid(e) = "True"}

\* the heap holding the element values es[1], es[2], ... in this order
RECURSIVE HeapOf(_)
HeapOf(es) ==
    IF es = <<>> THEN <<>>
    ELSE HeapOf(SubSeq(es, 1, Len(es) - 1)) \o NewCells(es[Len(es)])

\* variables names[k] bound to objects holding es[k]
BindAll(names, es) ==
    [x \in {names[k] : k \in DOMAIN names} |->
        LET k == CHOOSE m \in DOMAIN names : names[m] = x
        IN  NewObject(es[k], HeapOf(SubSeq(es, 1, k - 1)))]

(***************************************************************************)
(* SpecCompose: valid operands A, B, C of equal size and the order flag    *)
(* front are drawn; the program then computes                              *)
(*   AB = A.compose(B, front)       BC = B.compose(C, front)               *)
(*   AB_C = AB.compose(C, front)    A_BC = A.compose(BC, front)            *)
(***************************************************************************)
InitCompose ==
    /\ \E n \in 1 .. 3 : \E a, b, c \in Operands(n) :
          /\ objs = BindAll(<<"A", "B", "C">>, <<a, b, c>>)
          /\ cells = HeapOf(<<a, b, c>>)
    /\ call = NoCall
    /\ \E front \in BOOLEAN : hist = [args |-> <<front>>]
    /\ ncalls = 0

front == hist.args[1]

Bound(x) == x \in DOMAIN objs

ComposeAB ==
    /\ Compose("AB", "A", "B", front)
    /\ UNCHANGED <<hist, ncalls>>

ComposeBC ==
    /\ Bound("AB")
    /\ Compose("BC", "B", "C", front)
    /\ UNCHANGED <<hist, ncalls>>

ComposeAB_C ==
    /\ Bound("BC")
    /\ Compose("AB_C", "AB", "C", front)
    /\ UNCHANGED <<hist, ncalls>>

ComposeA_BC ==
    /\ Bound("AB_C")
    /\ Compose("A_BC", "A", "BC", front)
    /\ UNCHANGED <<hist, ncalls>>

NextCompose == ComposeAB \/ ComposeBC \/ ComposeAB_C \/ ComposeA_BC

SpecCompose == InitCompose /\ [][NextCompose]_vars

(***************************************************************************)
(* SpecWide: valid operands A and B of 4 to MaxWide qubits and the order   *)
(* flag are drawn; the program computes AB = A.compose(B, front).  The     *)
(* operands are the elements of the segments of a circuit that gives the   *)
(* last row of linear full support and phases on it.                       *)
(***************************************************************************)
WideCircuit(n) ==
    [j \in 1 .. n - 1 |-> <<"cx", j - 1, n - 1>>]
    \o << <<"phase", 1, n - 1>>, <<"x", n - 1>>, <<"phase", 3, n - 1>>,
          <<"cx", n - 1, 0>>, <<"phase", 6, 0>>, <<"x", 0>>, <<"cx", 0, 1>>,
          <<"phase", 7, 1>> >>

WideOperands(n) ==
    {e \in {Replay(Identity(n), w) :
               w \in {v \in Segments(WideCircuit(n)) : Len(v) <= MaxWideGates}} :
        _is_valid(e) = "True"}

InitWide ==
    /\ \E n \in 4 .. MaxWide : \E a, b \in WideOperands(n) :
          /\ objs = BindAll(<<"A", "B">>, <<a, b>>)
          /\ cells = HeapOf(<<a, b>>)
    /\ call = NoCall
    /\ \E f \in BOOLEAN : hist = [args |-> <<f>>]
    /\ ncalls = 0

ComposeWide ==
    /\ ~Bound("AB")
    /\ Compose("AB", "A", "B", front)
    /\ UNCHANGED <<hist, ncalls>>

NextWide == ComposeWide

SpecWide == InitWide /\ [][NextWide]_vars

(***************************************************************************)
(* SpecTensor: valid operands A and B, of any two sizes, are drawn; the    *)
(* program then computes                                                   *)
(*   T = A.tensor(B)     X = A.expand(B)     U = B.tensor(A)               *)
(***************************************************************************)
InitTensor ==
    /\ \E n0, n1 \in 1 .. 3 : \E a \in Operands(n0), b \in Operands(n1) :
          /\ objs = BindAll(<<"A", "B">>, <<a, b>>)
          /\ cells = HeapOf(<<a, b>>)
    /\ call = NoCall
    /\ hist = NoHist
    /\ ncalls = 0

TensorAB ==
    /\ Tensor("T", "A", "B")
    /\ UNCHANGED <<hist, ncalls>>

ExpandAB ==
    /\ Bound("T")
    /\ Expand("X", "A", "B")
    /\ UNCHANGED <<hist, ncalls>>

TensorBA ==
    /\ Bound("X")
    /\ Tensor("U", "B", "A")
    /\ UNCHANGED <<hist, ncalls>>

NextTensor == TensorAB \/ ExpandAB \/ TensorBA

SpecTensor == InitTensor /\ [][NextTensor]_vars

(***************************************************************************)
(* Spec: a program over the variables a, b, c.  a starts as an identity;   *)
(* at most MaxCalls calls follow: constructors, mutators (qubits in        *)
(* range), compose, tensor and expand, each result bound to the next free  *)
(* variable.                                                               *)
(***************************************************************************)
Names == <<"a", "b", "c">>

Free == {k \in DOMAIN Names : Names[k] \notin DOMAIN objs}

\* the variable the next result is bound to
Fresh == Names[CHOOSE k \in Free : \A m \in Free : k <= m]

Init ==
    /\ \E n \in 1 .. 2 :
          /\ objs = [x \in {"a"} |-> NewObject(Identity(n), <<>>)]
          /\ cells = NewCells(Identity(n))
    /\ call = NoCall
    /\ hist = NoHist
    /\ ncalls = 0

Step ==
    /\ ncalls < MaxCalls
    /\ ncalls' = ncalls + 1
    /\ hist' = hist

DoNew ==
    /\ Step /\ Free # {}
    /\ \E n \in 1 .. 2 : NewIdentity(Fresh, n)

DoConstruct ==
    /\ Step /\ Free # {}
    /\ \E y \in DOMAIN objs : \E validate \in BOOLEAN : Construct(Fresh, y, validate)

DoCx ==
    /\ Step
    /\ \E x \in DOMAIN objs : \E i, j \in Idx(objs[x].num_qubits) : ApplyCx(x, i, j)

DoPhase ==
    /\ Step
    /\ \E x \in DOMAIN objs : \E k \in {1, 4}, i \in Idx(objs[x].num_qubits) :
          ApplyPhase(x, k, i)

DoX ==
    /\ Step
    /\ \E x \in DOMAIN objs : \E i \in Idx(objs[x].num_qubits) : ApplyX(x, i)

DoCompose ==
    /\ Step /\ Free # {}
    /\ \E y, z \in DOMAIN objs : \E f \in BOOLEAN : Compose(Fresh, y, z, f)

DoTensor ==
    /\ Step /\ Free # {}
    /\ \E y, z \in DOMAIN objs :
          /\ objs[y].num_qubits + objs[z].num_qubits <= MaxQubits
          /\ Tensor(Fresh, y, z)

DoExpand ==
    /\ Step /\ Free # {}
    /\ \E y, z \in DOMAIN objs :
          /\ objs[y].num_qubits + objs[z].num_qubits <= MaxQubits
          /\ Expand(Fresh, y, z)

Next ==
    \/ DoNew \/ DoConstruct \/ DoCx \/ DoPhase \/ DoX
    \/ DoCompose \/ DoTensor \/ DoExpand

Spec == Init /\ [][Next]_vars

(***************************************************************************)
(* Properties of the mutators.                                             *)
(***************************************************************************)
\* component-wise equality of two elements: linear, shift and every polynomial term
SameElement(a, b) ==
    /\ a.num_qubits = b.num_qubits
    /\ a.linear = b.linear
    /\ a.shift = b.shift
    /\ a.poly = b.poly

Bits(e) ==
    /\ \A i, j \in Idx(e.num_qubits) : e.linear[i][j] \in {0, 1}
    /\ \A i \in Idx(e.num_qubits) : e.shift[i] \in {0, 1}

\* the validity ranges of the polynomial
PolyRanges(p) ==
    /\ p.weight_0 = 0
    /\ \A S \in DOMAIN p.weight_1 : p.weight_1[S] \in 0 .. 7
    /\ \A S \in DOMAIN p.weight_2 : p.weight_2[S] \in {0, 2, 4, 6}
    /\ \A S \in DOMAIN p.weight_3 : p.weight_3[S] \in {0, 4}

\* C2: in every state reached from the identity by mutator calls with in-range
\* qubits, linear is invertible over GF(2) and linear and shift hold bits.
C2_LinearInvertible ==
    /\ det(E.linear) % 2 = 1
    /\ Bits(E)

\* C10: in every state reached from the identity by mutator calls (phase powers
\* 0..7) the polynomial has constant 0, linear coefficients in 0..7, quadratic
\* coefficients in {0,2,4,6} and cubic coefficients in {0,4}; _append_cx and
\* _append_x leave the polynomial unchanged.
C10_PolyInRange ==
    [][/\ PolyRanges(E.poly)
       /\ PolyRanges(E.poly)'
       /\ call'.op \in {"_append_cx", "_append_x"} => E.poly' = E.poly]_vars

\* C10 witness: a phase call on a row of support 3 has set the cubic term
C10_Witness ==
    /\ E.num_qubits = 3
    /\ call.op = "_append_phase"
    /\ E.poly.weight_3[{0, 1, 2}] = 4
    /\ \E S \in DOMAIN E.poly.weight_2 : E.poly.weight_2[S] \in {2, 6}
    /\ \E S \in DOMAIN E.poly.weight_1 : E.poly.weight_1[S] \in {1, 3, 5, 7}

\* the generator's own element: the mutator applied to the n-qubit identity
Generator(op, args, n) ==
    CASE op = "_append_cx" -> _append_cx(Identity(n), args[1], args[2])
      [] op = "_append_phase" -> _append_phase(Identity(n), args[1], args[2])
      [] op = "_append_x" -> _append_x(Identity(n), args[1])

Mutators == {"_append_cx", "_append_phase", "_append_x"}

\* C4: a mutator call g (control # target for cx) that did not raise takes E to
\* G o E (apply E, then G) = E.compose(G) = G.compose(E, front=True), G being g
\* applied to the identity.
C4_LeftMultiply ==
    (/\ call.op \in Mutators
     /\ ~call.raised
     /\ call.op = "_append_cx" => hist.args[1] # hist.args[2])
    => LET G == Generator(call.op, hist.args, E.num_qubits)
       IN  /\ SameElement(E, compose(hist.before, G, FALSE))
           /\ SameElement(E, compose(G, hist.before, TRUE))

\* C4 witness: a phase call on a wire that carries a flipped value and whose row
\* has support 2 (the conjugated case), and it changed the polynomial
C4_Witness ==
    /\ call.op = "_append_phase"
    /\ ~call.raised
    /\ hist.args[1] = 1
    /\ hist.before.shift[hist.args[2]] = 1
    /\ Cardinality(Support(hist.before.linear[hist.args[2]])) = 2
    /\ E.poly # hist.before.poly

\* C9: a mutator raises iff one of its qubit arguments is outside [0, N); a call
\* that raised left linear, shift and the polynomial as they were.
C9_RaisesIffOutOfRange ==
    LET n == E.num_qubits
        qubits == CASE call.op = "_append_cx" -> {hist.args[1], hist.args[2]}
                    [] call.op = "_append_phase" -> {hist.args[2]}
                    [] call.op = "_append_x" -> {hist.args[1]}
                    [] OTHER -> {}
    IN  call.op \in Mutators =>
           /\ call.raised <=> (\E q \in qubits : q < 0 \/ q >= n)
           /\ call.raised => SameElement(E, hist.before)

\* C9 witness: a call with an out-of-range target raised on an element that
\* earlier calls had changed
C9_Witness ==
    /\ call.op = "_append_cx"
    /\ call.raised
    /\ hist.args[1] = 0
    /\ hist.args[2] = E.num_qubits
    /\ E.linear # eye(E.num_qubits)
    /\ E.poly # SpecialPolynomial(E.num_qubits)

(***************************************************************************)
(* Properties of compose.                                                  *)
(***************************************************************************)
\* the product a o b (apply b, then a) written out entry by entry over GF(2),
\* with the polynomial b.poly + a.poly(new_vars) and the constant set to 0
Product(a, b) ==
    LET n == a.num_qubits
        new_vars == NewVars(n, b.linear, b.shift)
        poly == PolyAdd(b.poly, evaluate(a.poly, new_vars))
    IN  [num_qubits |-> n,
         shift |-> [i \in Idx(n) |->
                      (Cardinality({k \in Idx(n) : a.linear[i][k] = 1 /\ b.shift[k] = 1})
                       + a.shift[i]) % 2],
         linear |-> [i \in Idx(n) |-> [j \in Idx(n) |->
                      Cardinality({k \in Idx(n) : a.linear[i][k] = 1 /\ b.linear[k][j] = 1})
                      % 2]],
         poly |-> [poly EXCEPT !.weight_0 = 0]]

\* the same product with the polynomial a.poly + b.poly(new_vars)
ProductAsClaimed(a, b) ==
    LET n == a.num_qubits
        new_vars == NewVars(n, b.linear, b.shift)
        poly == PolyAdd(a.poly, evaluate(b.poly, new_vars))
    IN  [Product(a, b) EXCEPT !.poly = [poly EXCEPT !.weight_0 = 0]]

\* the operand applied last (A of the claim) and first (B) in A.compose(B, front)
Outer == IF front THEN Val("A") ELSE Val("B")

Inner == IF front THEN Val("B") ELSE Val("A")

\* C1 as stated: compose returns A o B with shift A.linear.B.shift + A.shift,
\* linear A.linear.B.linear, new_vars from the rows of B, and polynomial
\* A.poly + B.poly.evaluate(new_vars), constant forced to 0 (A = self with
\* front=True, roles swapped with front=False).
C1_AsClaimed ==
    Bound("AB") => SameElement(Val("AB"), ProductAsClaimed(Outer, Inner))

\* C1 amended: as stated, except that the polynomial is
\* B.poly + A.poly.evaluate(new_vars): the polynomial of the operand applied
\* first is added as it is and that of the operand applied last is evaluated.
C1_Compose ==
    Bound("AB") => SameElement(Val("AB"), Product(Outer, Inner))

\* C1 witness: a product whose operands have different non-zero polynomials (a
\* cubic term in the outer one) through an inner operand with a non-trivial
\* linear part and shift
C1_Witness ==
    /\ Bound("AB")
    /\ Outer.num_qubits = 3
    /\ Outer.poly.weight_3[{0, 1, 2}] # 0
    /\ Inner.poly # SpecialPolynomial(3)
    /\ Inner.poly # Outer.poly
    /\ Inner.linear # eye(3)
    /\ Inner.shift # zeros(3)

\* C5: the result of compose, in either order, passes the validity predicate and
\* has constant term 0.
C5_ComposeValid ==
    Bound("AB") =>
       /\ _is_valid(Val("AB")) = "True"
       /\ Val("AB").poly.weight_0 = 0

\* the values of a compose result satisfy every condition of the validity
\* predicate (the predicate itself, run on the result, stops at shift.flatten())
ComposeValuesValid ==
    Bound("AB") => _is_valid([Val("AB") EXCEPT !.shift_type = "ndarray"]) = "True"

\* C6: A.compose(I) and I.compose(A), in either order, equal A component-wise.
C6_IdentityLaws ==
    Bound("AB") =>
       LET I == Identity(Val("A").num_qubits)
       IN  /\ SameElement(Val("B"), I) => SameElement(Val("AB"), Val("A"))
           /\ SameElement(Val("A"), I) => SameElement(Val("AB"), Val("B"))

\* C6 witness: the identity composed with an element that has a cubic term and
\* a non-trivial linear part
C6_Witness ==
    /\ Bound("AB")
    /\ SameElement(Val("A"), Identity(3))
    /\ Val("B").poly.weight_3[{0, 1, 2}] # 0
    /\ Val("B").linear # eye(3)

\* C7: (A o B) o C equals A o (B o C) component-wise, for compose in a fixed order.
C7_Associative ==
    Bound("A_BC") => SameElement(Val("AB_C"), Val("A_BC"))

\* C7 witness: three non-identity operands, with shifts, whose product has a
\* cubic term
C7_Witness ==
    /\ Bound("A_BC")
    /\ Val("A").num_qubits = 3
    /\ \A x \in {"A", "B", "C"} :
          /\ Val(x).linear # eye(3)
          /\ Val(x).poly # SpecialPolynomial(3)
    /\ Val("A").shift # zeros(3)
    /\ Val("B").shift # zeros(3)
    /\ Val("A_BC").poly.weight_3[{0, 1, 2}] # 0

(***************************************************************************)
(* Properties of tensor and expand.                                        *)
(***************************************************************************)
\* C8: A.tensor(B) has n0 + n1 qubits, linear block-diagonal with A.linear top
\* left, B.linear bottom right and zero blocks elsewhere, shift the two shifts
\* concatenated, every term of A unchanged on 0..n0-1, every term of B with its
\* indices moved up by n0, every mixed term and the constant 0; A.expand(B)
\* equals B.tensor(A).
C8_Tensor ==
    /\ Bound("T") =>
          LET a == Val("A")
              b == Val("B")
              t == Val("T")
              n0 == a.num_qubits
              n1 == b.num_qubits
              Low == Idx(n0)
              High == n0 .. (n0 + n1 - 1)
          IN  /\ t.num_qubits = n0 + n1
              /\ DOMAIN t.linear = Idx(n0 + n1)
              /\ DOMAIN t.shift = Idx(n0 + n1)
              /\ \A i, j \in Low : t.linear[i][j] = a.linear[i][j]
              /\ \A i, j \in High : t.linear[i][j] = b.linear[i - n0][j - n0]
              /\ \A i \in Low, j \in High : t.linear[i][j] = 0 /\ t.linear[j][i] = 0
              /\ \A i \in Low : t.shift[i] = a.shift[i]
              /\ \A i \in High : t.shift[i] = b.shift[i - n0]
              /\ \A S \in Terms(n0 + n1) :
                    get_term(t.poly, S) =
                       IF S = {} THEN 0
                       ELSE IF S \subseteq Low THEN get_term(a.poly, S)
                       ELSE IF S \subseteq High
                            THEN get_term(b.poly, {m - n0 : m \in S})
                       ELSE 0
    /\ Bound("U") => SameElement(Val("X"), Val("U"))

\* C8 witness: a 2-qubit element with a quadratic term and a shift tensored with
\* a 3-qubit element with a cubic term, and the expand of the same operands
C8_Witness ==
    /\ Bound("U")
    /\ Val("A").num_qubits = 2
    /\ Val("B").num_qubits = 3
    /\ Val("A").poly.weight_2[{0, 1}] # 0
    /\ Val("A").shift # zeros(2)
    /\ Val("B").poly.weight_3[{0, 1, 2}] # 0
    /\ Val("T").poly.weight_3[{2, 3, 4}] # 0

(***************************************************************************)
(* Content above degree 3 in the substitution of compose.                  *)
(***************************************************************************)
\* the full expansion of the outer operand's polynomial at the new_vars of the
\* inner operand, as substituted by A.compose(B, front)
ComposeExpansion ==
    Expansion(Outer.poly, NewVars(Inner.num_qubits, Inner.linear, Inner.shift))

HighDegree(n) == {S \in Monomials(n) : Cardinality(S) > 3}

\* C11: when two valid elements of equal qubit count (4 and more included) are
\* composed, the substitution of new_vars into the outer operand's polynomial,
\* expanded with x_i^2 = x_i, has no monomial of degree > 3 with a coefficient
\* that is non-zero mod 8: evaluate drops no non-zero content.
C11_NothingDropped ==
    Bound("AB") =>
       \A S \in HighDegree(Outer.num_qubits) : ComposeExpansion[S] % 8 = 0

\* C11 witness: a composition whose expansion does produce monomials of degree
\* 4 (with coefficients that are multiples of 8), from an outer polynomial with
\* a cubic term and an inner operand with a shift and a row of full support
C11_Witness ==
    /\ Bound("AB")
    /\ \E S \in HighDegree(Outer.num_qubits) : ComposeExpansion[S] # 0
    /\ \E T \in Subsets(Outer.num_qubits, 3) : get_term(Outer.poly, T) # 0
    /\ \E i \in Idx(Inner.num_qubits) :
          /\ Support(Inner.linear[i]) = Idx(Inner.num_qubits)
          /\ Inner.shift[i] = 1

\* the polynomial that evaluate returns is the expansion up to degree 3
EvaluateKeepsExpansion ==
    Bound("AB") =>
       LET kept == evaluate(Outer.poly,
                            NewVars(Inner.num_qubits, Inner.linear, Inner.shift))
       IN  \A S \in Terms(Outer.num_qubits) : get_term(kept, S) = ComposeExpansion[S] % 8

(***************************************************************************)
(* Independence of elements.                                               *)
(***************************************************************************)
Creators == {"compose", "tensor", "expand"}

FreshResult ==
    [][(call'.op \in Creators /\ ~call'.raised) =>
          /\ \A y \in DOMAIN objs :
                /\ {objs'[Fresh].linear, objs'[Fresh].shift, objs'[Fresh].poly}
                      \cap {objs[y].linear, objs[y].shift, objs[y].poly} = {}
                /\ Load(objs'[y], cells') = Load(objs[y], cells)]_vars

=============================================================================
